---- MODULE Spec2Model ----
(***************************************************************************)
(* Model of scripts/transform-migration-docs.ts: the section extraction    *)
(* and merge engine that fans the migration guide out to the MDX pages.    *)
(*                                                                         *)
(* Text.  A JavaScript string is modelled as a sequence of tokens.  The    *)
(* characters the code's regular expressions and trim() look at are        *)
(* tokens of their own: the newline, the space, ";", ">", the heading      *)
(* prefix "##" (and "###"), the fence "---" and the keyword "import".      *)
(* Every other token is an opaque run of characters inside which no match  *)
(* of the code's patterns begins or ends: it holds no newline and no ";"   *)
(* and neither starts nor ends with whitespace (a heading's words, a       *)
(* title, the body of an import statement, a word of prose).  Indices are  *)
(* 0-based as in the source; -1 is "no match".                             *)
(***************************************************************************)
EXTENDS Integers, Sequences, FiniteSets, TLC

NL == "\n"
SP == " "

\* The characters JavaScript's \s and String.prototype.trim() strip.
WhiteSpace == {SP, NL}

NoMatch == 0 - 1

Min(S) == CHOOSE x \in S : \A y \in S : x <= y
Max(S) == CHOOSE x \in S : \A y \in S : x >= y

RECURSIVE StrLen(_)
\* String.prototype.length: the number of characters of the text.
StrLen(s) == IF s = <<>> THEN 0 ELSE Len(Head(s)) + StrLen(Tail(s))

\* String.prototype.slice(start, end) and slice(start).
slice(s, start, end) == SubSeq(s, start + 1, end)
sliceFrom(s, start) == SubSeq(s, start + 1, Len(s))

\* String.prototype.trim().
trim(s) ==
  LET keep == {i \in 1..Len(s) : s[i] \notin WhiteSpace}
  IN  IF keep = {} THEN <<>> ELSE SubSeq(s, Min(keep), Max(keep))

\* pat occurs in s at index i.
startsAt(s, i, pat) ==
  /\ i + Len(pat) <= Len(s)
  /\ SubSeq(s, i + 1, i + Len(pat)) = pat

\* ^ and $ under the m flag: index i is the start / the end of a line.
lineStart(s, i) == i = 0 \/ s[i] = NL
lineEnd(s, i) == i = Len(s) \/ s[i + 1] = NL

\* First index at or after i of a token that is not whitespace (\s* greedy).
skipWs(s, i) ==
  LET stop == {k \in i..Len(s) : k = Len(s) \/ s[k + 1] \notin WhiteSpace}
  IN  Min(stop)

\* String.prototype.match(/^pat$/m): index of the first line that is pat.
matchLine(s, pat) ==
  LET hits == {i \in 0..Len(s) :
                 lineStart(s, i) /\ startsAt(s, i, pat) /\ lineEnd(s, i + Len(pat))}
  IN  IF hits = {} THEN NoMatch ELSE Min(hits)

\* String.prototype.match(/^pat/m): index of the first line that starts with pat.
matchLinePrefix(s, pat) ==
  LET hits == {i \in 0..Len(s) : lineStart(s, i) /\ startsAt(s, i, pat)}
  IN  IF hits = {} THEN NoMatch ELSE Min(hits)

H2 == <<"##", SP>>
Heading(words) == H2 \o <<words>>

(***************************************************************************)
(* SECTIONS (src/unnamed/part_005:934-1002).  startHeading and endHeading  *)
(* are the heading lines their regular expressions /^...$/m match;         *)
(* NoMarker is an undefined sectionMarker.                                 *)
(***************************************************************************)
NoMarker == <<>>

SECTIONS == <<
  [name |-> "Quick Start",
   startHeading |-> Heading("Quick Start: Your First Migration"),
   endHeading |-> Heading("Manual Curation Workflow"),
   targetPath |-> "getting-started/quick-start.mdx",
   strategy |-> "replace",
   frontmatter |-> [title |-> "Quick Start",
                    description |-> "Get started with macprefs in minutes - safely migrate your macOS preferences"],
   sectionMarker |-> NoMarker],
  [name |-> "Manual Curation Workflow",
   startHeading |-> Heading("Manual Curation Workflow"),
   endHeading |-> Heading("Recommended Configuration Template"),
   targetPath |-> "guides/migration-curation.mdx",
   strategy |-> "create",
   frontmatter |-> [title |-> "Manual Curation Workflow",
                    description |-> "Step-by-step guide to curating your macOS preferences for safe migration"],
   sectionMarker |-> NoMarker],
  [name |-> "Recommended Template",
   startHeading |-> Heading("Recommended Configuration Template"),
   endHeading |-> Heading("Common Pitfalls and How to Avoid Them"),
   targetPath |-> "getting-started/first-config.mdx",
   strategy |-> "replace",
   frontmatter |-> [title |-> "Your First Configuration",
                    description |-> "Create your first macprefs configuration file with this battle-tested template"],
   sectionMarker |-> NoMarker],
  [name |-> "Common Pitfalls",
   startHeading |-> Heading("Common Pitfalls and How to Avoid Them"),
   endHeading |-> Heading("Free vs Pro Workflow Comparison"),
   targetPath |-> "guides/migration-pitfalls.mdx",
   strategy |-> "create",
   frontmatter |-> [title |-> "Common Migration Pitfalls",
                    description |-> "Avoid these common mistakes when migrating macOS preferences with macprefs"],
   sectionMarker |-> NoMarker],
  [name |-> "Dotfiles Integration",
   startHeading |-> Heading("Integration with Dotfiles"),
   endHeading |-> Heading("Troubleshooting Migration Issues"),
   targetPath |-> "guides/power-users.mdx",
   strategy |-> "merge-section",
   frontmatter |-> [title |-> "Power User Guide",
                    description |-> "Advanced workflows for power users including dotfiles integration and multi-Mac sync"],
   sectionMarker |-> Heading("Multi-Mac Sync")],
  [name |-> "Troubleshooting",
   startHeading |-> Heading("Troubleshooting Migration Issues"),
   endHeading |-> Heading("Related Documentation"),
   targetPath |-> "reference/troubleshooting.mdx",
   strategy |-> "create",
   frontmatter |-> [title |-> "Troubleshooting",
                    description |-> "Solutions to common issues when using macprefs for preference migration"],
   sectionMarker |-> NoMarker]
>>

Paths == {SECTIONS[i].targetPath : i \in 1..Len(SECTIONS)}

\* An extraction with no end pattern (endRegex undefined).
NoEnd == <<>>

(***************************************************************************)
(* extractSection (part_005:1007-1025).                                    *)
(***************************************************************************)
\* Faulty variant: a start heading that is not found yields the whole text.
extractSectionWholeWhenNotFound(content, startRegex, endRegex) ==
  LET startIndex == matchLine(content, startRegex)
      afterStart == sliceFrom(content, startIndex + Len(startRegex))
      endMatch == IF endRegex = NoEnd THEN NoMatch ELSE matchLine(afterStart, endRegex)
      endIndex == IF endMatch = NoMatch
                    THEN Len(content)
                    ELSE startIndex + Len(startRegex) + endMatch
  IN  IF startIndex = NoMatch THEN trim(content) ELSE trim(slice(content, startIndex, endIndex))

\* Faulty variant: the slice runs through the end heading.
extractSectionThroughEndHeading(content, startRegex, endRegex) ==
  LET startIndex == matchLine(content, startRegex)
      afterStart == sliceFrom(content, startIndex + Len(startRegex))
      endMatch == IF endRegex = NoEnd THEN NoMatch ELSE matchLine(afterStart, endRegex)
      endIndex == IF endMatch = NoMatch
                    THEN Len(content)
                    ELSE startIndex + Len(startRegex) + endMatch + Len(endRegex)
  IN  IF startIndex = NoMatch THEN <<>> ELSE trim(slice(content, startIndex, endIndex))

\* Faulty variant: the end heading is looked for from the top of the text.
extractSectionEndFromTop(content, startRegex, endRegex) ==
  LET startIndex == matchLine(content, startRegex)
      endMatch == IF endRegex = NoEnd THEN NoMatch ELSE matchLine(content, endRegex)
      endIndex == IF endMatch = NoMatch THEN Len(content) ELSE endMatch
  IN  IF startIndex = NoMatch THEN <<>> ELSE trim(slice(content, startIndex, endIndex))

extractSection(content, startRegex, endRegex) ==
  LET startIndex == matchLine(content, startRegex)
      afterStart == sliceFrom(content, startIndex + Len(startRegex))
      endMatch == IF endRegex = NoEnd THEN NoMatch ELSE matchLine(afterStart, endRegex)
      endIndex == IF endMatch = NoMatch
                    THEN Len(content)
                    ELSE startIndex + Len(startRegex) + endMatch
  IN  IF startIndex = NoMatch THEN <<>> ELSE trim(slice(content, startIndex, endIndex))

(***************************************************************************)
(* processContent (part_005:1031-1039): four global, multi-line replaces   *)
(* of  /^>\s*\*\*Label:\*\*\s*(.+)$/gm  by an Aside block.                  *)
(***************************************************************************)
Label(word) == "**" \o word \o ":**"
AsideOpen(type) == "<Aside type=\"" \o type \o "\">"
AsideClose == "</Aside>"

\* Where (.+) starts when the match of the labelled blockquote begins at i,
\* or NoMatch: "^>" at i, \s*, the label, \s* (giving whitespace back until
\* one character that is not a newline is left for (.+)).
asideBodyStart(s, i, label) ==
  LET a == skipWs(s, i + 1)
      b == skipWs(s, a + 1)
      back == {k \in (a + 1)..(Len(s) - 1) : s[k + 1] # NL}
  IN  IF ~(lineStart(s, i) /\ i < Len(s) /\ s[i + 1] = ">") THEN NoMatch
      ELSE IF ~(a < Len(s) /\ s[a + 1] = label) THEN NoMatch
      ELSE IF b < Len(s) THEN b
      ELSE IF back = {} THEN NoMatch
      ELSE Max(back)

\* End of the line that holds index k: where (.+)$ stops.
endOfLine(s, k) == Min({e \in k..Len(s) : lineEnd(s, e)})

RECURSIVE replaceAside(_, _, _, _)
\* s.slice(pos) with every match at or after pos replaced (the g flag).
replaceAside(s, pos, label, type) ==
  LET hits == {i \in pos..Len(s) : asideBodyStart(s, i, label) # NoMatch}
      i == Min(hits)
      k == asideBodyStart(s, i, label)
      e == endOfLine(s, k)
  IN  IF hits = {} THEN sliceFrom(s, pos)
      ELSE slice(s, pos, i)
             \o <<AsideOpen(type), NL>> \o slice(s, k, e) \o <<NL, AsideClose>>
             \o replaceAside(s, e, label, type)

processContent(content) ==
  LET r1 == replaceAside(content, 0, Label("Note"), "note")
      r2 == replaceAside(r1, 0, Label("Tip"), "tip")
      r3 == replaceAside(r2, 0, Label("Warning"), "caution")
      r4 == replaceAside(r3, 0, Label("Caution"), "caution")
  IN  r4

(***************************************************************************)
(* generateFrontmatter (part_005:1044-1052).                               *)
(***************************************************************************)
FENCE == "---"
IMPORT == "import"
ASIDE_IMPORT == <<IMPORT, SP, "{ Aside } from '@astrojs/starlight/components'", ";">>

generateFrontmatter(title, description) ==
  <<FENCE, NL,
    "title: \"", title, "\"", NL,
    "description: \"", description, "\"", NL,
    FENCE, NL,
    NL>>
  \o ASIDE_IMPORT \o <<NL>>

(***************************************************************************)
(* The file system: a path holds NoFile or File(text).                     *)
(***************************************************************************)
NoFile == [exists |-> FALSE, data |-> <<>>]
File(text) == [exists |-> TRUE, data |-> text]

\* The null of readExistingFrontmatter (no token of a text is "null").
null == <<"null">>

(***************************************************************************)
(* readExistingFrontmatter (part_005:1058-1075).                           *)
(***************************************************************************)
\* content.match(/^---\n([\s\S]*?)\n---/): the length of fmMatch[0], which
\* starts at index 0, or NoMatch.  The lazy group stops at the first "\n---".
fmMatchLength(content) ==
  LET closes == {k \in 2..(Len(content) - 2) :
                   content[k + 1] = NL /\ content[k + 2] = FENCE}
  IN  IF startsAt(content, 0, <<FENCE, NL>>) /\ closes # {}
        THEN Min(closes) + 2
        ELSE NoMatch

\* One iteration of (\s*import\s+[^;]+;\s*) at index p: the index after it,
\* or NoMatch.
importStatementEnd(s, p) ==
  LET q == skipWs(s, p)
      r == q + 1
      semis == {k \in r..(Len(s) - 1) : s[k + 1] = ";"}
      sc == Min(semis)
  IN  IF ~(q < Len(s) /\ s[q + 1] = IMPORT) THEN NoMatch
      ELSE IF ~(r < Len(s) /\ s[r + 1] \in WhiteSpace) THEN NoMatch
      ELSE IF semis = {} \/ sc - r < 2 THEN NoMatch
      ELSE skipWs(s, sc + 1)

RECURSIVE importsEnd(_, _)
\* (...)+ greedy: the index after the last iteration that matches from p on.
importsEnd(s, p) ==
  IF importStatementEnd(s, p) = NoMatch THEN p
  ELSE importsEnd(s, importStatementEnd(s, p))

\* afterFm.match(/^(\s*import\s+[^;]+;\s*)+/): the length of importMatch[0],
\* or NoMatch.
importMatchLength(afterFm) ==
  IF importStatementEnd(afterFm, 0) = NoMatch THEN NoMatch ELSE importsEnd(afterFm, 0)

\* Faulty variant: the existing header is never reused.
readExistingFrontmatterNever(file) == null

\* Faulty variant: the page's own imports are dropped for the default one.
readExistingFrontmatterDefaultImport(file) ==
  LET content == file.data
      fmLen == fmMatchLength(content)
  IN  IF ~file.exists \/ fmLen = NoMatch THEN null
      ELSE slice(content, 0, fmLen) \o <<NL, NL>> \o ASIDE_IMPORT \o <<NL>>

\* Faulty variant: a page without a metadata block is kept as the header.
readExistingFrontmatterKeepingUnfenced(file) ==
  LET content == file.data
      fmLen == fmMatchLength(content)
      fmMatch == slice(content, 0, fmLen)
      afterFm == sliceFrom(content, fmLen)
      impLen == importMatchLength(afterFm)
  IN  IF ~file.exists THEN null
      ELSE IF fmLen = NoMatch THEN content \o <<NL>>
      ELSE IF impLen # NoMatch
        THEN fmMatch \o <<NL>> \o trim(slice(afterFm, 0, impLen)) \o <<NL>>
        ELSE fmMatch \o <<NL, NL>> \o ASIDE_IMPORT \o <<NL>>

\* Faulty variant: the import statements are kept with the whitespace
\* around them.
readExistingFrontmatterUntrimmed(file) ==
  LET content == file.data
      fmLen == fmMatchLength(content)
      fmMatch == slice(content, 0, fmLen)
      afterFm == sliceFrom(content, fmLen)
      impLen == importMatchLength(afterFm)
  IN  IF ~file.exists THEN null
      ELSE IF fmLen = NoMatch THEN null
      ELSE IF impLen # NoMatch
        THEN fmMatch \o <<NL>> \o slice(afterFm, 0, impLen) \o <<NL>>
        ELSE fmMatch \o <<NL, NL>> \o ASIDE_IMPORT \o <<NL>>

readExistingFrontmatter(file) ==
  LET content == file.data
      fmLen == fmMatchLength(content)
      fmMatch == slice(content, 0, fmLen)
      afterFm == sliceFrom(content, fmLen)
      impLen == importMatchLength(afterFm)
  IN  IF ~file.exists THEN null
      ELSE IF fmLen = NoMatch THEN null
      ELSE IF impLen # NoMatch
        THEN fmMatch \o <<NL>> \o trim(slice(afterFm, 0, impLen)) \o <<NL>>
        ELSE fmMatch \o <<NL, NL>> \o ASIDE_IMPORT \o <<NL>>

(***************************************************************************)
(* mergeSection (part_005:1081-1104).  The marker's regex metacharacters   *)
(* are escaped, so markerRegex is the literal marker anchored at a line    *)
(* start (flag m), with nothing required after it.                         *)
(***************************************************************************)
markerIndex(existingContent, sectionMarker) ==
  matchLinePrefix(existingContent, sectionMarker)

\* Faulty variant: the tail starts after the "## " of the next heading, as
\* afterMarkerStart starts after the marker.
mergeSectionTailAfterMatch(existingContent, newContent, sectionMarker) ==
  LET index == markerIndex(existingContent, sectionMarker)
      beforeMarker == slice(existingContent, 0, index)
      afterMarkerStart == sliceFrom(existingContent, index + Len(sectionMarker))
      nextH2 == matchLinePrefix(afterMarkerStart, H2)
      afterSection == IF nextH2 # NoMatch
                        THEN sliceFrom(afterMarkerStart, nextH2 + Len(H2))
                        ELSE <<>>
  IN  IF index = NoMatch
        THEN trim(existingContent) \o <<NL, NL>> \o trim(newContent) \o <<NL>>
        ELSE trim(beforeMarker) \o <<NL, NL>> \o trim(newContent) \o <<NL, NL>>
               \o trim(afterSection) \o <<NL>>

\* Faulty variant: the next heading is looked for from the marker itself,
\* so the old section survives in the tail.
mergeSectionKeepingOldSection(existingContent, newContent, sectionMarker) ==
  LET index == markerIndex(existingContent, sectionMarker)
      beforeMarker == slice(existingContent, 0, index)
      afterMarkerStart == sliceFrom(existingContent, index)
      nextH2 == matchLinePrefix(afterMarkerStart, H2)
      afterSection == IF nextH2 # NoMatch THEN sliceFrom(afterMarkerStart, nextH2) ELSE <<>>
  IN  IF index = NoMatch
        THEN trim(existingContent) \o <<NL, NL>> \o trim(newContent) \o <<NL>>
        ELSE trim(beforeMarker) \o <<NL, NL>> \o trim(newContent) \o <<NL, NL>>
               \o trim(afterSection) \o <<NL>>

mergeSection(existingContent, newContent, sectionMarker) ==
  LET index == markerIndex(existingContent, sectionMarker)
      beforeMarker == slice(existingContent, 0, index)
      afterMarkerStart == sliceFrom(existingContent, index + Len(sectionMarker))
      nextH2 == matchLinePrefix(afterMarkerStart, H2)
      afterSection == IF nextH2 # NoMatch THEN sliceFrom(afterMarkerStart, nextH2) ELSE <<>>
  IN  IF index = NoMatch
        THEN trim(existingContent) \o <<NL, NL>> \o trim(newContent) \o <<NL>>
        ELSE trim(beforeMarker) \o <<NL, NL>> \o trim(newContent) \o <<NL, NL>>
               \o trim(afterSection) \o <<NL>>

(***************************************************************************)
(* writeMdxFile (part_005:1109-1140) on a file system fs: the file system  *)
(* after the call and the console lines it prints.  A console line is      *)
(* [level, text, arg].  Creating the parent directory changes no file.     *)
(***************************************************************************)
ConsoleLine(level, text, arg) == [level |-> level, text |-> text, arg |-> arg]

\* Faulty variant: the merge branch reads the page a second time for its
\* header.
fileCallsRereading(fs, targetPath, strategy, sectionMarker) ==
  IF strategy = "merge-section" /\ sectionMarker # NoMarker
    THEN IF fs[targetPath].exists
           THEN <<"existsSync", "readFileSync", "existsSync", "readFileSync", "writeFileSync">>
           ELSE <<"existsSync", "existsSync", "existsSync", "writeFileSync", "existsSync">>
  ELSE IF strategy = "merge-section"
    THEN IF fs[targetPath].exists
           THEN <<"existsSync">>
           ELSE <<"existsSync", "existsSync", "writeFileSync", "existsSync">>
  ELSE IF fs[targetPath].exists
    THEN <<"existsSync", "readFileSync", "writeFileSync", "existsSync">>
    ELSE <<"existsSync", "writeFileSync", "existsSync">>

\* The fs calls writeMdxFile makes on the destination (fullPath), in order:
\* existsSync at 1126 (when the strategy is merge-section and a marker is
\* given), readFileSync at 1128 and writeFileSync at 1130 in the merge
\* branch; otherwise existsSync at 1132 (when the strategy is
\* merge-section), existsSync at 1059, readFileSync at 1062 (when the page
\* exists), writeFileSync at 1137 and existsSync at 1138.
fileCalls(fs, targetPath, strategy, sectionMarker) ==
  IF strategy = "merge-section" /\ sectionMarker # NoMarker
    THEN IF fs[targetPath].exists
           THEN <<"existsSync", "readFileSync", "writeFileSync">>
           ELSE <<"existsSync", "existsSync", "existsSync", "writeFileSync", "existsSync">>
  ELSE IF strategy = "merge-section"
    THEN IF fs[targetPath].exists
           THEN <<"existsSync">>
           ELSE <<"existsSync", "existsSync", "writeFileSync", "existsSync">>
  ELSE IF fs[targetPath].exists
    THEN <<"existsSync", "readFileSync", "writeFileSync", "existsSync">>
    ELSE <<"existsSync", "writeFileSync", "existsSync">>

\* Faulty variant: whatever does not take the merge branch is written as a
\* replace.
writeMdxFileUnmarkedReplaces(fs, targetPath, frontmatter, content, strategy, sectionMarker) ==
  LET processedContent == processContent(content)
      existing == fs[targetPath]
      mergedContent == mergeSection(existing.data, processedContent, sectionMarker)
      existingFm == readExistingFrontmatter(existing)
      fm == IF existingFm # null
              THEN existingFm
              ELSE generateFrontmatter(frontmatter.title, frontmatter.description)
      finalContent == fm \o <<NL>> \o processedContent \o <<NL>>
      written == [fs EXCEPT ![targetPath] = File(finalContent)]
      calls == fileCalls(fs, targetPath, strategy, sectionMarker)
  IN  IF strategy = "merge-section" /\ sectionMarker # NoMarker /\ existing.exists
        THEN [fs |-> [fs EXCEPT ![targetPath] = File(mergedContent)],
              calls |-> calls,
              printed |-> <<ConsoleLine("log", "Merged section into", targetPath)>>]
        ELSE [fs |-> written,
              calls |-> calls,
              printed |-> <<ConsoleLine("log", "Replaced", targetPath)>>]

writeMdxFile(fs, targetPath, frontmatter, content, strategy, sectionMarker) ==
  LET processedContent == processContent(content)
      existing == fs[targetPath]
      mergedContent == mergeSection(existing.data, processedContent, sectionMarker)
      existingFm == readExistingFrontmatter(existing)
      fm == IF existingFm # null
              THEN existingFm
              ELSE generateFrontmatter(frontmatter.title, frontmatter.description)
      finalContent == fm \o <<NL>> \o processedContent \o <<NL>>
      written == [fs EXCEPT ![targetPath] = File(finalContent)]
      calls == fileCalls(fs, targetPath, strategy, sectionMarker)
  IN  IF strategy = "merge-section" /\ sectionMarker # NoMarker /\ existing.exists
        THEN [fs |-> [fs EXCEPT ![targetPath] = File(mergedContent)],
              calls |-> calls,
              printed |-> <<ConsoleLine("log", "Merged section into", targetPath)>>]
      ELSE IF strategy = "replace" \/ strategy = "create" \/ ~existing.exists
        THEN [fs |-> written,
              calls |-> calls,
              \* fs.existsSync(fullPath) is evaluated after the write
              printed |-> <<ConsoleLine("log",
                                        IF written[targetPath].exists
                                          THEN "Replaced" ELSE "Created",
                                        targetPath)>>]
      ELSE [fs |-> fs, calls |-> calls, printed |-> <<>>]

(***************************************************************************)
(* Inputs: the migration guide given on the command line and the           *)
(* destination pages found on disk.                                        *)
(***************************************************************************)
RECURSIVE Lines(_)
\* The lines ls, each ended by a newline.
Lines(ls) == IF ls = <<>> THEN <<>> ELSE Head(ls) \o <<NL>> \o Lines(Tail(ls))

GuideHead ==
  <<<<"#", SP, "Migration Setup">>,
    <<>>,
    Heading("Quick Start: Your First Migration"),
    <<">", SP, Label("Note"), SP, "Back up first">>,
    <<"Run the migration">>,
    Heading("Manual Curation Workflow"),
    <<"Curate the list">>,
    Heading("Recommended Configuration Template"),
    <<"Use this template">>,
    Heading("Common Pitfalls and How to Avoid Them"),
    <<">", SP, Label("Warning"), SP, "Never sync caches">>,
    Heading("Free vs Pro Workflow Comparison"),
    <<"Compare tiers">> >>

GuideTail ==
  <<Heading("Troubleshooting Migration Issues"),
    <<"Check the log">>,
    <<>>,
    Heading("Related Documentation"),
    <<"Links">> >>

\* The guide as shipped: every section heading present.
Guide ==
  Lines(GuideHead
        \o <<Heading("Integration with Dotfiles"), <<"Track the config in git">>, <<>> >>
        \o GuideTail)

\* The Dotfiles heading is misspelled: that section is not found.
GuideNoDotfiles ==
  Lines(GuideHead
        \o <<Heading("Integrating with Dotfiles"), <<"Track the config in git">> >>
        \o GuideTail)

\* The Dotfiles section holds a subsection headed by the marker text.
GuideWithSync ==
  Lines(GuideHead
        \o <<Heading("Integration with Dotfiles"), <<"Track the config in git">>,
             Heading("Multi-Mac Sync"), <<"Sync between Macs">> >>
        \o GuideTail)

Sources == {Guide, GuideNoDotfiles, GuideWithSync, <<>>}

CustomMeta == <<FENCE, NL, "title: Custom", NL, FENCE, NL>>
ImportA == <<IMPORT, SP, "A from 'a'", ";">>
ImportB == <<IMPORT, SP, "B from 'b'", ";">>

\* How a destination page can begin: no metadata block; a block and no
\* import; a block, a blank line and an import; a block and two imports; a
\* block that holds a YAML comment line "## Multi-Mac Sync"; a block and an
\* import written without its semicolon; a block closed by a line of four
\* dashes.
Headers ==
  { <<>>,
    CustomMeta,
    CustomMeta \o <<NL>> \o ImportA \o <<NL, NL>>,
    CustomMeta \o ImportA \o <<NL>> \o ImportB \o <<NL>>,
    <<FENCE, NL>> \o Heading("Multi-Mac Sync") \o <<NL, "title: Custom", NL, FENCE, NL>>,
    CustomMeta \o <<IMPORT, SP, "A from 'a'", NL, NL>>,
    <<FENCE, NL, "title: Custom", NL, FENCE, "-", NL>> }

\* How it can go on: nothing; the marker's section between other content;
\* no marker; the marker's section last, no final newline; the Dotfiles
\* section already pasted in by hand and no marker; prose that holds a
\* semicolon.
Bodies ==
  { <<>>,
    Lines(<< <<"Intro">>, Heading("Multi-Mac Sync"), <<"Old sync text">>,
             Heading("Backup Strategies"), <<"Keep backups">> >>),
    Lines(<< Heading("Backup Strategies"), <<"Keep backups">> >>),
    <<NL>> \o Heading("Multi-Mac Sync") \o <<NL, "Old sync text">>,
    Lines(<< Heading("Integration with Dotfiles"), <<"Track the config in git">> >>),
    Lines(<< <<"Run the export", ";", SP, "then review it">> >>) }

InitialFiles == {NoFile} \cup {File(h \o b) : h \in Headers, b \in Bodies}

(***************************************************************************)
(* State.                                                                  *)
(*   source             the file at inputPath                              *)
(*   files              the destination pages under CONTENT_BASE           *)
(*   pc                 where transform is: "start", "extract", "write",   *)
(*                      "done", "exit" (process.exit(1)), "crash" (an      *)
(*                      uncaught exception); "unit" when a function is     *)
(*                      exercised on its own                               *)
(*   sectionIndex       position of the extraction loop in SECTIONS        *)
(*   extractedSections  the array the extraction loop fills                *)
(*   writeIndex         position of the write loop in extractedSections    *)
(*   console            the lines printed by the current invocation        *)
(*   runs               completed invocations of the script                *)
(*   snapshot           history: files as the current invocation found it  *)
(*   call               history: the latest writeMdxFile call, with the    *)
(*                      fs calls it made on its destination                *)
(*   unit               inputs and results of mergeSection on its own      *)
(***************************************************************************)
VARIABLES source, files, pc, sectionIndex, extractedSections, writeIndex,
          console, runs, snapshot, call, unit

vars == <<source, files, pc, sectionIndex, extractedSections, writeIndex,
          console, runs, snapshot, call, unit>>

\* Invocations of the script in one behaviour.
MaxRuns == 3

NoCall == [targetPath |-> "", strategy |-> "none", sectionMarker |-> NoMarker,
           content |-> <<>>, before |-> NoFile, after |-> NoFile, printed |-> <<>>,
           calls |-> <<>>]

NoUnit == [existingContent |-> <<>>, newContent |-> <<>>, sectionMarker |-> NoMarker,
           input |-> <<>>, output |-> <<>>, applied |-> 0]

Init ==
  /\ source \in {NoFile} \cup {File(t) : t \in Sources}
  /\ \E d \in InitialFiles : files = [p \in Paths |-> d]
  /\ pc = "start"
  /\ sectionIndex = 1
  /\ extractedSections = <<>>
  /\ writeIndex = 1
  /\ console = <<>>
  /\ runs = 0
  /\ snapshot = files
  /\ call = NoCall
  /\ unit = NoUnit

\* transform, part_005:1146-1157: the input is checked and read; the
\* "Source file" line is printed from the text readFileSync returned.
ReadSource ==
  /\ pc = "start"
  /\ IF ~source.exists
       THEN /\ console' = console \o <<ConsoleLine("log", "Reading migration guide", ""),
                                       ConsoleLine("error", "Input file not found", "")>>
            /\ pc' = "exit"
       ELSE /\ console' = console \o <<ConsoleLine("log", "Reading migration guide", ""),
                                       ConsoleLine("log", "Source file", ""),
                                       ConsoleLine("log", "Extracting sections", "")>>
            /\ pc' = "extract"
  /\ sectionIndex' = 1
  /\ extractedSections' = <<>>
  /\ snapshot' = files
  /\ UNCHANGED <<source, files, writeIndex, runs, call, unit>>

\* Faulty variant: a section that was not found is warned about and pushed
\* all the same.
ExtractNextFromKeepingEmpty(table) ==
  /\ pc = "extract"
  /\ sectionIndex <= Len(table)
  /\ LET section == table[sectionIndex]
         content == extractSection(source.data, section.startHeading, section.endHeading)
     IN  /\ console' = console
               \o <<IF content = <<>>
                      THEN ConsoleLine("warn", "Could not extract section", section.name)
                      ELSE ConsoleLine("log", "Extracted", section.name)>>
         /\ extractedSections' = Append(extractedSections,
              [name |-> section.name,
               content |-> content,
               targetPath |-> section.targetPath,
               strategy |-> section.strategy,
               frontmatter |-> section.frontmatter,
               sectionMarker |-> section.sectionMarker])
  /\ sectionIndex' = sectionIndex + 1
  /\ UNCHANGED <<source, files, pc, writeIndex, runs, snapshot, call, unit>>

\* Faulty variant: the extracted record is built without the definition's
\* sectionMarker.
ExtractNextFromDroppingMarker(table) ==
  /\ pc = "extract"
  /\ sectionIndex <= Len(table)
  /\ LET section == table[sectionIndex]
         content == extractSection(source.data, section.startHeading, section.endHeading)
     IN  IF content = <<>>
           THEN /\ console' = console
                      \o <<ConsoleLine("warn", "Could not extract section", section.name)>>
                /\ UNCHANGED extractedSections
           ELSE /\ console' = console \o <<ConsoleLine("log", "Extracted", section.name)>>
                /\ extractedSections' = Append(extractedSections,
                     [name |-> section.name,
                      content |-> content,
                      targetPath |-> section.targetPath,
                      strategy |-> section.strategy,
                      frontmatter |-> section.frontmatter,
                      sectionMarker |-> NoMarker])
  /\ sectionIndex' = sectionIndex + 1
  /\ UNCHANGED <<source, files, pc, writeIndex, runs, snapshot, call, unit>>

\* transform, part_005:1159-1176: one iteration of the extraction loop over
\* the section table.
ExtractNextFrom(table) ==
  /\ pc = "extract"
  /\ sectionIndex <= Len(table)
  /\ LET section == table[sectionIndex]
         content == extractSection(source.data, section.startHeading, section.endHeading)
     IN  IF content = <<>>
           THEN /\ console' = console
                      \o <<ConsoleLine("warn", "Could not extract section", section.name)>>
                /\ UNCHANGED extractedSections
           ELSE /\ console' = console \o <<ConsoleLine("log", "Extracted", section.name)>>
                /\ extractedSections' = Append(extractedSections,
                     [name |-> section.name,
                      content |-> content,
                      targetPath |-> section.targetPath,
                      strategy |-> section.strategy,
                      frontmatter |-> section.frontmatter,
                      sectionMarker |-> section.sectionMarker])
  /\ sectionIndex' = sectionIndex + 1
  /\ UNCHANGED <<source, files, pc, writeIndex, runs, snapshot, call, unit>>

ExtractNext == ExtractNextFrom(SECTIONS)

\* Faulty variant: the write loop starts as soon as one definition has been
\* looked at.
StartWritingEarly(table) ==
  /\ pc = "extract"
  /\ sectionIndex > 1
  /\ console' = console \o <<ConsoleLine("log", "Writing MDX files", "")>>
  /\ pc' = "write"
  /\ writeIndex' = 1
  /\ UNCHANGED <<source, files, sectionIndex, extractedSections, runs, snapshot, call, unit>>

\* transform, part_005:1178: the extraction loop over the table is over.
StartWritingAfter(table) ==
  /\ pc = "extract"
  /\ sectionIndex > Len(table)
  /\ console' = console \o <<ConsoleLine("log", "Writing MDX files", "")>>
  /\ pc' = "write"
  /\ writeIndex' = 1
  /\ UNCHANGED <<source, files, sectionIndex, extractedSections, runs, snapshot, call, unit>>

StartWriting == StartWritingAfter(SECTIONS)

\* transform, part_005:1180-1188: the effect of one writeMdxFile call on the
\* files and the console; call keeps what went in and what came out.
Written(section, result) ==
  /\ files' = result.fs
  /\ console' = console \o result.printed
  /\ call' = [targetPath |-> section.targetPath,
              strategy |-> section.strategy,
              sectionMarker |-> section.sectionMarker,
              content |-> section.content,
              before |-> files[section.targetPath],
              after |-> result.fs[section.targetPath],
              printed |-> result.printed,
              calls |-> result.calls]

\* Faulty variant: the call reads the destination as the run found it, not
\* as an earlier call of the same run left it.
WriteSectionReadingStale(section) ==
  Written(section,
          writeMdxFile([files EXCEPT ![section.targetPath] = snapshot[section.targetPath]],
                       section.targetPath, section.frontmatter,
                       section.content, section.strategy,
                       section.sectionMarker))

\* transform, part_005:1181-1187: the arguments of the writeMdxFile call.
WriteSection(section) ==
  Written(section, writeMdxFile(files, section.targetPath, section.frontmatter,
                                section.content, section.strategy,
                                section.sectionMarker))

\* transform, part_005:1180-1188: one iteration of the write loop.
WriteNext ==
  /\ pc = "write"
  /\ writeIndex <= Len(extractedSections)
  /\ WriteSection(extractedSections[writeIndex])
  /\ writeIndex' = writeIndex + 1
  /\ UNCHANGED <<source, pc, sectionIndex, extractedSections, runs, snapshot, unit>>

\* What a destination can hold after a call that threw: mkdirSync,
\* readFileSync or the open of writeFileSync failed and it is as it was, or
\* writeFileSync failed after it had opened (and so emptied) the file.
FaultOutcomes(before) == {before, File(<<>>)}

\* Faulty variant: the exception is caught and the loop goes on.
WriteFailsSwallowed ==
  /\ pc = "write"
  /\ writeIndex <= Len(extractedSections)
  /\ \E outcome \in FaultOutcomes(files[extractedSections[writeIndex].targetPath]) :
       files' = [files EXCEPT ![extractedSections[writeIndex].targetPath] = outcome]
  /\ console' = console \o <<ConsoleLine("error", "Uncaught exception",
                                          extractedSections[writeIndex].targetPath)>>
  /\ writeIndex' = writeIndex + 1
  /\ UNCHANGED <<source, pc, sectionIndex, extractedSections, runs, snapshot, call, unit>>

\* writeMdxFile, part_005:1120-1137: a file-system call of the current
\* iteration throws.  Nothing in writeMdxFile, transform (1145-1191) or the
\* entry point (1202) catches it: the process prints it and ends.
WriteFails ==
  /\ pc = "write"
  /\ writeIndex <= Len(extractedSections)
  /\ \E outcome \in FaultOutcomes(files[extractedSections[writeIndex].targetPath]) :
       files' = [files EXCEPT ![extractedSections[writeIndex].targetPath] = outcome]
  /\ console' = console \o <<ConsoleLine("error", "Uncaught exception",
                                          extractedSections[writeIndex].targetPath)>>
  /\ pc' = "crash"
  /\ UNCHANGED <<source, sectionIndex, extractedSections, writeIndex, runs, snapshot, call, unit>>

\* transform, part_005:1190: the write loop is over.
Finish ==
  /\ pc = "write"
  /\ writeIndex > Len(extractedSections)
  /\ console' = console \o <<ConsoleLine("log", "Migration docs transformation complete", "")>>
  /\ pc' = "done"
  /\ runs' = runs + 1
  /\ UNCHANGED <<source, files, sectionIndex, extractedSections, writeIndex, snapshot, call, unit>>

\* The script is run again on the same guide (part_005:1194-1202, the
\* validation step "run twice, compare output" of part_004:169).
Rerun ==
  /\ pc = "done"
  /\ runs < MaxRuns
  /\ pc' = "start"
  /\ console' = <<>>
  /\ call' = NoCall
  /\ UNCHANGED <<source, files, sectionIndex, extractedSections, writeIndex, runs, snapshot, unit>>

Next ==
  \/ ReadSource
  \/ ExtractNext
  \/ StartWriting
  \/ WriteNext
  \/ WriteFails
  \/ Finish
  \/ Rerun

Spec == Init /\ [][Next]_vars

(***************************************************************************)
(* mergeSection on its own: an existing document, a new section and a      *)
(* marker are drawn, and mergeSection is applied to the document and then  *)
(* to its own result.                                                      *)
(***************************************************************************)
\* Lines of an existing document.
MaxDocLines == 4
\* Applications of mergeSection in a row.
MaxApplications == 2

RECURSIVE Join(_)
\* The lines ls separated by newlines.
Join(ls) ==
  IF ls = <<>> THEN <<>>
  ELSE IF Len(ls) = 1 THEN Head(ls)
  ELSE Head(ls) \o <<NL>> \o Join(Tail(ls))

SyncMarker == Heading("Multi-Mac Sync")
BackupMarker == Heading("Backup Strategies")

DocLines ==
  { SyncMarker,
    SyncMarker \o <<SP, "Tips">>,
    BackupMarker,
    <<"Some text">>,
    <<>> }

ExistingDocuments ==
  {Join(ls) : ls \in UNION {[1..n -> DocLines] : n \in 0..MaxDocLines}}

NewSections ==
  { SyncMarker \o <<NL, "New sync text">>,
    BackupMarker \o <<NL, "New backup text">>,
    SyncMarker \o <<NL, "New sync text", NL>> \o Heading("Conflicts") \o <<NL, "Resolve them">>,
    Heading("Integration with Dotfiles") \o <<NL, "Track the config in git">>,
    <<NL>> \o SyncMarker \o <<NL, "New sync text", NL, NL>> }

Markers == {SyncMarker, BackupMarker}

InitMerge ==
  /\ source = NoFile
  /\ files = [p \in Paths |-> NoFile]
  /\ pc = "unit"
  /\ sectionIndex = 1
  /\ extractedSections = <<>>
  /\ writeIndex = 1
  /\ console = <<>>
  /\ runs = 0
  /\ snapshot = files
  /\ call = NoCall
  /\ \E d \in ExistingDocuments, n \in NewSections, m \in Markers :
       unit = [existingContent |-> d, newContent |-> n, sectionMarker |-> m,
               input |-> <<>>, output |-> d, applied |-> 0]

\* mergeSection is applied to the latest document.
ApplyMerge ==
  /\ pc = "unit"
  /\ unit.applied < MaxApplications
  /\ unit' = [unit EXCEPT
                !.input = unit.output,
                !.output = mergeSection(unit.output, unit.newContent, unit.sectionMarker),
                !.applied = unit.applied + 1]
  /\ UNCHANGED <<source, files, pc, sectionIndex, extractedSections, writeIndex,
                 console, runs, snapshot, call>>

NextMerge == ApplyMerge

SpecMerge == InitMerge /\ [][NextMerge]_vars

(***************************************************************************)
(* Properties.                                                             *)
(***************************************************************************)
\* The invocation the latest writeMdxFile call belongs to: runs counts the
\* invocations that are over.
RunOfCall == IF pc = "done" THEN runs ELSE runs + 1

\* The latest writeMdxFile call belongs to a run after the first one: it
\* found the page as the previous run's call for the same section left it.
SecondApplication == call.strategy # "none" /\ RunOfCall >= 2

\* C1: with strategy 'create', a destination that exists when writeMdxFile
\* is called has the same content after the call.
C1_CreateLeavesExistingUntouched ==
  (call.strategy = "create" /\ call.before.exists) => call.after = call.before

\* C2: when a second (or later) run on the unchanged guide is over, no
\* destination is longer than it was when that run began.
C2_RerunNeverGrows ==
  (pc = "done" /\ runs >= 2) =>
    \A p \in Paths :
      (snapshot[p].exists /\ files[p].exists) =>
        StrLen(files[p].data) <= StrLen(snapshot[p].data)

\* C3: 'replace' applied a second time with the same section leaves the
\* document as the first application wrote it.
C3_ReplaceIdempotent ==
  (SecondApplication /\ call.strategy = "replace") => call.after = call.before

\* C4: mergeSection applied to its own result, with the same section and
\* marker, returns that result unchanged.
C4_MergeIdempotent ==
  unit.applied >= 2 => unit.output = unit.input

\* Number of lines of s that are pat / that start with pat.
CountLines(s, pat) ==
  Cardinality({i \in 0..Len(s) :
                 lineStart(s, i) /\ startsAt(s, i, pat) /\ lineEnd(s, i + Len(pat))})
CountLinesStarting(s, pat) ==
  Cardinality({i \in 0..Len(s) : lineStart(s, i) /\ startsAt(s, i, pat)})

\* s ends with suffix.
endsWith(s, suffix) ==
  /\ Len(suffix) <= Len(s)
  /\ SubSeq(s, Len(s) - Len(suffix) + 1, Len(s)) = suffix

\* The latest application of mergeSection found the marker in its input.
MarkerFound == unit.applied >= 1 /\ markerIndex(unit.input, unit.sectionMarker) # NoMatch

\* The text of the input before the marker line, and the text from the
\* next "## " heading after the marker to the end of the input.
TextBefore == slice(unit.input, 0, markerIndex(unit.input, unit.sectionMarker))
TextAfter ==
  LET rest == sliceFrom(unit.input,
                        markerIndex(unit.input, unit.sectionMarker) + Len(unit.sectionMarker))
      h == matchLinePrefix(rest, H2)
  IN  IF h = NoMatch THEN <<>> ELSE sliceFrom(rest, h)

\* The new section's first line is the marker heading.
StartsWithMarker == matchLine(unit.newContent, unit.sectionMarker) = 0

C6_OutsideUnchangedByteForByte ==
  MarkerFound =>
    /\ startsAt(unit.output, 0, TextBefore)
    /\ endsWith(unit.output, TextAfter)
    /\ Len(unit.output) >= Len(TextBefore) + Len(TextAfter)

\* C6 as amended: when the marker is found, the output begins with the text
\* before the marker and ends with the text after the owned range followed
\* by one newline, each with its leading and trailing whitespace trimmed,
\* and the two do not overlap.
C6_OutsideUnchangedUpToTrim ==
  MarkerFound =>
    /\ startsAt(unit.output, 0, trim(TextBefore))
    /\ endsWith(unit.output, trim(TextAfter) \o <<NL>>)
    /\ Len(unit.output) >= Len(trim(TextBefore)) + Len(trim(TextAfter)) + 1

\* C6 witness: the marker was found between text that starts with a blank
\* line and a later section that has no final newline.
C6_Witness ==
  /\ MarkerFound
  /\ TextBefore # <<>> /\ trim(TextBefore) # <<>> /\ Head(TextBefore) = NL
  /\ TextAfter # <<>> /\ TextAfter[Len(TextAfter)] # NL
  /\ startsAt(unit.output, 0, trim(TextBefore))
  /\ endsWith(unit.output, trim(TextAfter) \o <<NL>>)

\* The latest writeMdxFile call merged into an existing page.
MergedIntoExisting ==
  call.strategy = "merge-section" /\ call.sectionMarker # NoMarker /\ call.before.exists

\* The latest call took mergeSection's append-at-end path.
AppendedAtEnd ==
  MergedIntoExisting /\ markerIndex(call.before.data, call.sectionMarker) = NoMatch

\* What the latest call printed is a warning or an error.
CallFlagged ==
  call.printed # <<>> /\ \E i \in 1..Len(call.printed) : call.printed[i].level # "log"

\* C7: every call that appends because the marker is missing prints a
\* warning, not the report of a normal merge.
C7_MissingMarkerIsFlagged == AppendedAtEnd => CallFlagged

\* C8: a merge-section call whose destination does not exist prints a
\* warning, not the report of a normal create or replace.
C8_MissingDestinationIsFlagged ==
  (call.strategy = "merge-section" /\ ~call.before.exists) => CallFlagged

\* The metadata block a document starts with (empty when it has none).
MetadataBlock(text) ==
  IF fmMatchLength(text) = NoMatch THEN <<>> ELSE slice(text, 0, fmMatchLength(text))

\* The import statements that follow the metadata block, without the
\* whitespace around them (empty when there is none).
ImportStatements(text) ==
  LET afterFm == sliceFrom(text, fmMatchLength(text))
  IN  IF fmMatchLength(text) = NoMatch \/ importMatchLength(afterFm) = NoMatch
        THEN <<>>
        ELSE trim(slice(afterFm, 0, importMatchLength(afterFm)))

\* The document from its start to the end of its last import statement.
HeaderAndPreamble(text) ==
  LET afterFm == sliceFrom(text, fmMatchLength(text))
      impLen == importMatchLength(afterFm)
      kept == {k \in 1..impLen : afterFm[k] \notin WhiteSpace}
  IN  IF fmMatchLength(text) = NoMatch THEN <<>>
      ELSE IF impLen = NoMatch THEN MetadataBlock(text)
      ELSE MetadataBlock(text) \o slice(afterFm, 0, Max(kept))

\* The latest call was a replace or a merge on an existing page that
\* starts with a metadata block.
WroteOverMetadata ==
  /\ call.strategy \in {"replace", "merge-section"}
  /\ call.before.exists
  /\ MetadataBlock(call.before.data) # <<>>

ReplacedOverMetadata ==
  call.strategy = "replace" /\ call.before.exists /\ MetadataBlock(call.before.data) # <<>>

MaxSourceLines == 5

HeadingA == Heading("A")
HeadingB == Heading("B")
HeadingC == Heading("C")

SourceLines ==
  { HeadingA,
    HeadingB,
    HeadingC,
    HeadingB \o <<SP, "notes">>,
    <<"Some text">>,
    <<>> }

SourceTexts ==
  {Join(ls) : ls \in UNION {[1..n -> SourceLines] : n \in 0..MaxSourceLines}}

EndHeadings == {NoEnd, HeadingB, HeadingA}

InitExtract ==
  /\ source = NoFile
  /\ files = [p \in Paths |-> NoFile]
  /\ pc = "unit"
  /\ sectionIndex = 1
  /\ extractedSections = <<>>
  /\ writeIndex = 1
  /\ console = <<>>
  /\ runs = 0
  /\ snapshot = files
  /\ call = NoCall
  /\ \E t \in SourceTexts, e \in EndHeadings :
       unit = [content |-> t, startRegex |-> HeadingA, endRegex |-> e,
               result |-> <<>>, applied |-> 0]

\* extractSection is applied to the drawn text.
ApplyExtract ==
  /\ pc = "unit"
  /\ unit.applied = 0
  /\ unit' = [unit EXCEPT
                !.result = extractSection(unit.content, unit.startRegex, unit.endRegex),
                !.applied = 1]
  /\ UNCHANGED <<source, files, pc, sectionIndex, extractedSections, writeIndex,
                 console, runs, snapshot, call>>

NextExtract == ApplyExtract

SpecExtract == InitExtract /\ [][NextExtract]_vars

\* Indices of the lines of s that are exactly pat.
LinesThatAre(s, pat) ==
  {i \in 0..Len(s) : lineStart(s, i) /\ startsAt(s, i, pat) /\ lineEnd(s, i + Len(pat))}

\* C11: when no line of the source is the start heading, extractSection
\* returns the empty string, whatever the source and the end heading.
C11_NoStartGivesEmpty ==
  (unit.applied = 1 /\ LinesThatAre(unit.content, unit.startRegex) = {}) =>
    unit.result = <<>>

\* C11 witness: a source of several lines that holds the end heading and
\* other text but not the start heading was given, and nothing came back.
C11_Witness ==
  /\ unit.applied = 1
  /\ LinesThatAre(unit.content, unit.startRegex) = {}
  /\ unit.endRegex = HeadingB
  /\ LinesThatAre(unit.content, HeadingB) # {}
  /\ LinesThatAre(unit.content, <<"Some text">>) # {}
  /\ unit.result = <<>>

\* The source is made of the sections A, B and C in that order, each
\* opened by its own heading line, and A is asked for up to B.
SectionsABC ==
  /\ unit.startRegex = HeadingA /\ unit.endRegex = HeadingB
  /\ Cardinality(LinesThatAre(unit.content, HeadingA)) = 1
  /\ Cardinality(LinesThatAre(unit.content, HeadingB)) = 1
  /\ Cardinality(LinesThatAre(unit.content, HeadingC)) = 1
  /\ \A a \in LinesThatAre(unit.content, HeadingA),
        b \in LinesThatAre(unit.content, HeadingB),
        c \in LinesThatAre(unit.content, HeadingC) : a < b /\ b < c

\* C12: for a source made of the sections A, B, C, extractSection with A's
\* heading as start and B's as end returns the text from the first
\* character of A's heading line to just before B's heading line, trimmed:
\* it begins with A's heading and holds neither B's nor C's heading.
C12_ExactlySectionA ==
  (unit.applied = 1 /\ SectionsABC) =>
    \A a \in LinesThatAre(unit.content, HeadingA),
       b \in LinesThatAre(unit.content, HeadingB) :
      /\ unit.result = trim(slice(unit.content, a, b))
      /\ startsAt(unit.result, 0, HeadingA)
      /\ LinesThatAre(unit.result, HeadingB) = {}
      /\ LinesThatAre(unit.result, HeadingC) = {}

\* C12 witness: A's section has a body line and is followed by B and C.
C12_Witness ==
  /\ unit.applied = 1
  /\ SectionsABC
  /\ unit.content = Join(<<HeadingA, <<"Some text">>, HeadingB, HeadingC, <<>> >>)
  /\ unit.result = HeadingA \o <<NL, "Some text">>

\* Indices of the lines that are the end heading and lie after the matched
\* start heading.
EndLinesAfterStart ==
  {i \in LinesThatAre(unit.content, unit.endRegex) :
     i >= Min(LinesThatAre(unit.content, unit.startRegex)) + Len(unit.startRegex)}

\* C13: the section ends at the first line that is the end heading and
\* lies after the matched start heading, and at the end of the source when
\* there is no such line; an end heading above the start heading, or the
\* start heading itself, does not end it.
C13_EndSearchedAfterStart ==
  ( /\ unit.applied = 1
    /\ unit.endRegex # NoEnd
    /\ LinesThatAre(unit.content, unit.startRegex) # {} ) =>
    unit.result =
      trim(slice(unit.content,
                 Min(LinesThatAre(unit.content, unit.startRegex)),
                 IF EndLinesAfterStart = {} THEN Len(unit.content)
                                           ELSE Min(EndLinesAfterStart)))

\* C13 witness: the end heading stands above the start heading and again
\* below it; the section runs from the start heading to the lower one.
C13_Witness ==
  /\ unit.applied = 1
  /\ unit.endRegex = HeadingB
  /\ LinesThatAre(unit.content, unit.startRegex) # {}
  /\ EndLinesAfterStart # {}
  /\ Min(LinesThatAre(unit.content, HeadingB)) < Min(LinesThatAre(unit.content, HeadingA))
  /\ unit.result = HeadingA \o <<NL, "Some text">>

(***************************************************************************)
(* processContent on its own: a section text is drawn and processContent   *)
(* is applied to it and then to its own result.                            *)
(***************************************************************************)
\* Lines of a section text.
MaxContentLines == 3
\* Applications of processContent in a row.
MaxNormalizations == 2

Labels == {Label("Note"), Label("Tip"), Label("Warning"), Label("Caution")}

\* A Note, a Tip whose body starts with a Note blockquote, a Note label
\* with its text on the next line, an indented line, a heading, a blank line.
ContentLines ==
  { <<">", SP, Label("Note"), SP, "Back up first">>,
    <<">", SP, Label("Tip"), SP, ">", SP, Label("Note"), SP, "Read this">>,
    <<">", SP, Label("Note")>>,
    <<SP, SP, "defaults read">>,
    Heading("Setup"),
    <<>> }

SectionTexts ==
  {Join(ls) : ls \in UNION {[1..n -> ContentLines] : n \in 0..MaxContentLines}}

InitNormalize ==
  /\ source = NoFile
  /\ files = [p \in Paths |-> NoFile]
  /\ pc = "unit"
  /\ sectionIndex = 1
  /\ extractedSections = <<>>
  /\ writeIndex = 1
  /\ console = <<>>
  /\ runs = 0
  /\ snapshot = files
  /\ call = NoCall
  /\ \E t \in SectionTexts :
       unit = [content |-> t, input |-> <<>>, output |-> t, applied |-> 0]

\* processContent is applied to the latest text.
ApplyNormalize ==
  /\ pc = "unit"
  /\ unit.applied < MaxNormalizations
  /\ unit' = [unit EXCEPT
                !.input = unit.output,
                !.output = processContent(unit.output),
                !.applied = unit.applied + 1]
  /\ UNCHANGED <<source, files, pc, sectionIndex, extractedSections, writeIndex,
                 console, runs, snapshot, call>>

NextNormalize == ApplyNormalize

SpecNormalize == InitNormalize /\ [][NextNormalize]_vars

\* C14: processContent applied to its own result returns that result
\* unchanged, also for a Tip line whose body starts with a Note blockquote.
C14_NormalizeIdempotent ==
  unit.applied >= 2 => unit.output = unit.input

RECURSIVE SplitLines(_)
\* The lines of s, without their newlines.
SplitLines(s) ==
  IF \A i \in 1..Len(s) : s[i] # NL THEN <<s>>
  ELSE <<SubSeq(s, 1, Min({i \in 1..Len(s) : s[i] = NL}) - 1)>>
         \o SplitLines(SubSeq(s, Min({i \in 1..Len(s) : s[i] = NL}) + 1, Len(s)))

\* The line begins with a blockquote marker followed by a bolded label.
IsLabelledQuote(line) ==
  /\ Len(line) >= 2
  /\ line[1] = ">"
  /\ skipWs(line, 1) < Len(line)
  /\ line[skipWs(line, 1) + 1] \in Labels

RECURSIVE OtherLines(_)
\* The lines of ls that are not labelled blockquote lines, in order.
OtherLines(ls) ==
  IF ls = <<>> THEN <<>>
  ELSE IF IsLabelledQuote(Head(ls)) THEN OtherLines(Tail(ls))
  ELSE <<Head(ls)>> \o OtherLines(Tail(ls))

RECURSIVE IsSubsequence(_, _)
\* The elements of a occur in b, in the same order.
IsSubsequence(a, b) ==
  IF a = <<>> THEN TRUE
  ELSE IF b = <<>> THEN FALSE
  ELSE IF Head(a) = Head(b) THEN IsSubsequence(Tail(a), Tail(b))
  ELSE IsSubsequence(a, Tail(b))

\* C15: every line of the input that is not a labelled blockquote line is
\* a line of the output, unchanged, and these lines keep their order.
C15_OtherLinesUnchanged ==
  unit.applied = 1 =>
    IsSubsequence(OtherLines(SplitLines(unit.input)), SplitLines(unit.output))

(***************************************************************************)
(* transform over a section table other than the shipped one: SECTIONS     *)
(* with the targetPath of one definition set to that of an earlier one, so *)
(* that two definitions share a destination, or with the sectionMarker of  *)
(* the merge-section definition left out.  unit.table is the table the     *)
(* loop iterates.                                                          *)
(***************************************************************************)
Retargeted(earlier, later) ==
  [SECTIONS EXCEPT ![later].targetPath = SECTIONS[earlier].targetPath]

\* SECTIONS with the optional sectionMarker (part_005:920) of one definition
\* left out.
Unmarked(i) == [SECTIONS EXCEPT ![i].sectionMarker = NoMarker]

\* SECTIONS as shipped; a replace on a replaced page; a create on a replaced
\* page; a merge-section on a created page; a create on the merged page; a
\* merge-section without its marker.
Tables ==
  { SECTIONS, Retargeted(1, 3), Retargeted(1, 2), Retargeted(4, 5), Retargeted(5, 6),
    Unmarked(5) }

InitTable ==
  /\ source \in {File(Guide), File(GuideNoDotfiles)}
  /\ \E d \in InitialFiles : files = [p \in Paths |-> d]
  /\ pc = "start"
  /\ sectionIndex = 1
  /\ extractedSections = <<>>
  /\ writeIndex = 1
  /\ console = <<>>
  /\ runs = 0
  /\ snapshot = files
  /\ call = NoCall
  /\ \E t \in Tables : unit = [table |-> t]

NextTable ==
  \/ ReadSource
  \/ ExtractNextFrom(unit.table)
  \/ StartWritingAfter(unit.table)
  \/ WriteNext
  \/ WriteFails
  \/ Finish

SpecTable == InitTable /\ [][NextTable]_vars

\* The names of the records of seq, in order.
Names(seq) == [k \in 1..Len(seq) |-> seq[k].name]

RECURSIVE FoundNames(_, _)
\* The names of those of the first n definitions of the table whose start
\* heading is a line of the source, in table order.
FoundNames(table, n) ==
  IF n = 0 THEN <<>>
  ELSE IF LinesThatAre(source.data, table[n].startHeading) = {}
    THEN FoundNames(table, n - 1)
    ELSE Append(FoundNames(table, n - 1), table[n].name)

RECURSIVE Replay(_, _, _)
\* The files after writeMdxFile has been called for the first n of the
\* sections, one after the other, starting from the files fs.
Replay(fs, sections, n) ==
  IF n = 0 THEN fs
  ELSE writeMdxFile(Replay(fs, sections, n - 1),
                    sections[n].targetPath, sections[n].frontmatter,
                    sections[n].content, sections[n].strategy,
                    sections[n].sectionMarker).fs

\* The sections written before the latest call, in this run, to the
\* destination of the latest call.
EarlierSamePath ==
  {k \in 1..(writeIndex - 2) :
     extractedSections[k].targetPath = extractedSections[writeIndex - 1].targetPath}

\* C16: the definitions are extracted in table order and then written in
\* that order, one call at a time: the files are what the calls made so
\* far give when each is applied to the result of the one before, and a
\* call for a destination already written in this run found there exactly
\* what the earlier call had written.
C16_InOrderEachReadSeesEarlierWrite ==
  /\ pc = "extract" => Names(extractedSections) = FoundNames(unit.table, sectionIndex - 1)
  /\ pc \in {"write", "done", "crash"} =>
       Names(extractedSections) = FoundNames(unit.table, Len(unit.table))
  /\ pc \in {"write", "done"} =>
       files = Replay(snapshot, extractedSections, writeIndex - 1)
  /\ (pc \in {"write", "done"} /\ writeIndex > 1 /\ EarlierSamePath # {}) =>
       call.before = Replay(snapshot, extractedSections,
                            Max(EarlierSamePath))[call.targetPath]

\* C16 witness: a merge-section call on a page that did not exist when the
\* run began and that an earlier definition of the run has created.
C16_Witness ==
  /\ pc = "write"
  /\ writeIndex > 1
  /\ EarlierSamePath # {}
  /\ call.strategy = "merge-section"
  /\ ~snapshot[call.targetPath].exists
  /\ call.before.exists
  /\ call.after # call.before

\* The console holds a warning about the section / the report of a write
\* to the path.
Warned(name) ==
  \E i \in 1..Len(console) : console[i].level = "warn" /\ console[i].arg = name
WroteLine(path) ==
  \E i \in 1..Len(console) :
    /\ console[i].text \in {"Merged section into", "Replaced", "Created"}
    /\ console[i].arg = path

\* sub occurs in s.
Contains(s, sub) == \E i \in 0..Len(s) : startsAt(s, i, sub)

\* C17: when a run is over, every section whose start heading is no line
\* of the source has a warning on the console and its destination is as
\* the run found it, with no write reported; every other section has been
\* written: its write is reported and its destination holds its text.
C17_NotFoundSkippedOthersWritten ==
  pc = "done" =>
    \A i \in 1..Len(SECTIONS) :
      IF LinesThatAre(source.data, SECTIONS[i].startHeading) = {}
        THEN /\ Warned(SECTIONS[i].name)
             /\ ~WroteLine(SECTIONS[i].targetPath)
             /\ files[SECTIONS[i].targetPath] = snapshot[SECTIONS[i].targetPath]
        ELSE /\ ~Warned(SECTIONS[i].name)
             /\ WroteLine(SECTIONS[i].targetPath)
             /\ files[SECTIONS[i].targetPath].exists
             /\ Contains(files[SECTIONS[i].targetPath].data,
                         processContent(extractSection(source.data,
                                                       SECTIONS[i].startHeading,
                                                       SECTIONS[i].endHeading)))

\* C17 witness: a run on the guide with the misspelled Dotfiles heading is
\* over; the power-users page is as it was and the section after it in
\* the table has been written.
C17_Witness ==
  /\ pc = "done"
  /\ source.data = GuideNoDotfiles
  /\ Warned("Dotfiles Integration")
  /\ snapshot["guides/power-users.mdx"].exists
  /\ files["guides/power-users.mdx"] = snapshot["guides/power-users.mdx"]
  /\ WroteLine("reference/troubleshooting.mdx")
  /\ files["reference/troubleshooting.mdx"] # snapshot["reference/troubleshooting.mdx"]

\* The console holds the report of an uncaught exception / of a missing
\* input file / of the end of a run.
FaultReported ==
  \E i \in 1..Len(console) : console[i].text = "Uncaught exception"
MissingInputReported ==
  \E i \in 1..Len(console) : console[i].text = "Input file not found"
CompletionReported ==
  \E i \in 1..Len(console) : console[i].text = "Migration docs transformation complete"

\* C18: once a file-system call on a destination has thrown, the run has
\* ended there: the exception is the last thing on the console and no
\* completion is reported; the destinations of the sections before the
\* failing one hold what their calls wrote, and those of the sections
\* after it are as the run found them, with no write reported.  A missing
\* input file ends the run with every destination as it was.
C18_FaultAbortsWithoutRollback ==
  /\ FaultReported =>
       /\ pc = "crash"
       /\ console[Len(console)].text = "Uncaught exception"
       /\ ~CompletionReported
  /\ pc = "crash" =>
       \A k \in 1..Len(extractedSections) :
         /\ k < writeIndex =>
              /\ WroteLine(extractedSections[k].targetPath)
              /\ files[extractedSections[k].targetPath] =
                   Replay(snapshot, extractedSections, writeIndex - 1)
                     [extractedSections[k].targetPath]
         /\ k > writeIndex =>
              /\ ~WroteLine(extractedSections[k].targetPath)
              /\ files[extractedSections[k].targetPath] =
                   snapshot[extractedSections[k].targetPath]
  /\ MissingInputReported =>
       /\ pc = "exit"
       /\ files = snapshot
       /\ \A p \in Paths : ~WroteLine(p)

\* C18 witness: the call for a section in the middle of the run threw
\* after emptying its destination; an earlier destination holds its new
\* content and a later section is left unwritten.
C18_Witness ==
  /\ pc = "crash"
  /\ writeIndex > 1
  /\ writeIndex < Len(extractedSections)
  /\ files[extractedSections[1].targetPath] # snapshot[extractedSections[1].targetPath]
  /\ files[extractedSections[writeIndex].targetPath] = File(<<>>)
  /\ snapshot[extractedSections[writeIndex].targetPath] # File(<<>>)

\* The definition of SECTIONS that writes to the path.
DefinitionFor(path) ==
  SECTIONS[CHOOSE i \in 1..Len(SECTIONS) : SECTIONS[i].targetPath = path]

\* The header generated from the title and description of the definition
\* the latest call belongs to.
GeneratedHeader ==
  generateFrontmatter(DefinitionFor(call.targetPath).frontmatter.title,
                      DefinitionFor(call.targetPath).frontmatter.description)

\* What every replace ends with: a newline (the blank line after the
\* header), the normalized section and the final newline.
SectionPart == <<NL>> \o processContent(call.content) \o <<NL>>

\* What the latest call wrote before its SectionPart.
HeaderPart == SubSeq(call.after.data, 1, Len(call.after.data) - Len(SectionPart))

\* The lines of the HeaderPart that follow the metadata block.
PreambleLines ==
  SplitLines(sliceFrom(HeaderPart, Len(MetadataBlock(call.before.data))))

\* C19: a replace writes the header, one blank line, the normalized
\* section and a final newline.  The header is the generated one when the
\* destination had no metadata block; otherwise it is the destination's
\* metadata block followed by import statements and blank lines only, so
\* that no line of the previous body is in the output.
C19_ReplaceIsHeaderBlankLineSection ==
  call.strategy = "replace" =>
    /\ endsWith(call.after.data, SectionPart)
    /\ HeaderPart # <<>> /\ HeaderPart[Len(HeaderPart)] = NL
    /\ IF MetadataBlock(call.before.data) = <<>>
         THEN HeaderPart = GeneratedHeader
         ELSE /\ startsAt(HeaderPart, 0, MetadataBlock(call.before.data))
              /\ \A n \in 1..Len(PreambleLines) :
                   \/ PreambleLines[n] = <<>>
                   \/ PreambleLines[n][1] = IMPORT

\* The text starts with a line that is '---' and has, from its third line
\* on, a line that is '---' / a line that begins with '---'.
StartsWithFencedBlock(text) ==
  /\ SplitLines(text)[1] = <<FENCE>>
  /\ \E n \in 3..Len(SplitLines(text)) : SplitLines(text)[n] = <<FENCE>>
StartsWithFence(text) ==
  /\ SplitLines(text)[1] = <<FENCE>>
  /\ \E n \in 3..Len(SplitLines(text)) :
       SplitLines(text)[n] # <<>> /\ SplitLines(text)[n][1] = FENCE

\* C20 as claimed: when the destination does not exist, or exists and does
\* not start with a block delimited by '---' lines, readExistingFrontmatter
\* returns null and a replace writes the generated header.
C20_NullWithoutFencedBlock ==
  ( /\ call.strategy = "replace"
    /\ ~call.before.exists \/ ~StartsWithFencedBlock(call.before.data) ) =>
    /\ readExistingFrontmatter(call.before) = null
    /\ call.after.data = GeneratedHeader \o SectionPart

\* C20 as amended: when the destination does not exist, or exists and does
\* not start with a '---' line followed, from its third line on, by a line
\* that begins with '---', readExistingFrontmatter returns null and a
\* replace writes the generated header.
C20_NullWithoutFence ==
  ( /\ call.strategy = "replace"
    /\ ~call.before.exists \/ ~StartsWithFence(call.before.data) ) =>
    /\ readExistingFrontmatter(call.before) = null
    /\ call.after.data = GeneratedHeader \o SectionPart

\* C20 witness: a replace of an existing page that has text and no
\* metadata block; the page now starts with the generated header.
C20_Witness ==
  /\ call.strategy = "replace"
  /\ call.before.exists
  /\ call.before.data # <<>>
  /\ ~StartsWithFence(call.before.data)
  /\ readExistingFrontmatter(call.before) = null
  /\ startsAt(call.after.data, 0,
              <<FENCE, NL, "title: \"", DefinitionFor(call.targetPath).frontmatter.title>>)

\* What mergeSection returns when it takes the marker as missing: the
\* document, a blank line, the new section, a newline.
AppendResult == trim(unit.input) \o <<NL, NL>> \o trim(unit.newContent) \o <<NL>>

\* C21: mergeSection takes the marker as found exactly when a line of the
\* existing document is the marker heading; with no such line (a line
\* that goes on after the marker text does not count) it appends.
C21_FoundIffMarkerLine ==
  unit.applied >= 1 =>
    (unit.output = AppendResult <=> LinesThatAre(unit.input, unit.sectionMarker) = {})

\* before, the new section and tail, each trimmed, those that are not
\* empty separated by one blank line, and one final newline.
JoinedWithOneBlankLine(before, section, tail) ==
  (IF trim(before) = <<>> THEN <<>> ELSE trim(before) \o <<NL, NL>>)
    \o trim(section)
    \o (IF trim(tail) = <<>> THEN <<>> ELSE <<NL, NL>> \o trim(tail))
    \o <<NL>>

\* C22: when the marker is found, the output is the text before the marker
\* line, the new section and the text from the next line starting with
\* "## " on, each trimmed and joined by exactly one blank line; with an
\* empty before it has no leading blank line, with an empty tail it ends
\* with a single newline.
C22_JoinedByOneBlankLine ==
  MarkerFound =>
    unit.output = JoinedWithOneBlankLine(TextBefore, unit.newContent, TextAfter)

\* The severity tag of a label.
TagOf(label) ==
  IF label = Label("Note") THEN "note"
  ELSE IF label = Label("Tip") THEN "tip"
  ELSE "caution"

\* The label of a labelled blockquote line and the text that follows it
\* on the line.
LabelOf(line) == line[skipWs(line, 1) + 1]
TextAfterLabel(line) == sliceFrom(line, skipWs(line, skipWs(line, 1) + 1))

\* C23: after processContent, every line of the input that begins with
\* '>' and a bolded label has become a callout block with the tag of its
\* label and, as its body, the text that follows the label on that line.
C23_LabelledLineBecomesItsCallout ==
  unit.applied = 1 =>
    \A n \in 1..Len(SplitLines(unit.input)) :
      IsLabelledQuote(SplitLines(unit.input)[n]) =>
        Contains(unit.output,
                 <<AsideOpen(TagOf(LabelOf(SplitLines(unit.input)[n]))), NL>>
                   \o TextAfterLabel(SplitLines(unit.input)[n])
                   \o <<NL, AsideClose>>)

(***************************************************************************)
(* convertBlockquotesToAsides (src/unnamed/part_003:205-240, also          *)
(* scripts/legacy/transform-config-docs.cjs:31-60): the four labelled      *)
(* replaces of processContent, then  /^>\s*(.+)$/gm  replaced by a note    *)
(* Aside unless the captured text starts with "<Aside".                    *)
(***************************************************************************)
AsideOpens == {AsideOpen("note"), AsideOpen("tip"), AsideOpen("caution")}

\* Where (.+) starts when the match of the generic blockquote begins at i,
\* or NoMatch: "^>" at i, \s* (giving whitespace back until one character
\* that is not a newline is left for (.+)).
quoteBodyStart(s, i) ==
  LET a == skipWs(s, i + 1)
      back == {k \in (i + 1)..(Len(s) - 1) : s[k + 1] # NL}
  IN  IF ~(lineStart(s, i) /\ i < Len(s) /\ s[i + 1] = ">") THEN NoMatch
      ELSE IF a < Len(s) THEN a
      ELSE IF back = {} THEN NoMatch
      ELSE Max(back)

RECURSIVE replaceQuote(_, _)
\* s.slice(pos) with every generic match at or after pos replaced by what
\* the callback returns.
replaceQuote(s, pos) ==
  LET hits == {i \in pos..Len(s) : quoteBodyStart(s, i) # NoMatch}
      i == Min(hits)
      k == quoteBodyStart(s, i)
      e == endOfLine(s, k)
  IN  IF hits = {} THEN sliceFrom(s, pos)
      ELSE IF s[k + 1] \in AsideOpens
        THEN slice(s, pos, e) \o replaceQuote(s, e)
      ELSE slice(s, pos, i)
             \o <<AsideOpen("note"), NL>> \o slice(s, k, e) \o <<NL, AsideClose>>
             \o replaceQuote(s, e)

convertBlockquotesToAsides(content) == replaceQuote(processContent(content), 0)

\* A Warning, a Warning label with nothing after it, a Tip, a blockquote
\* without a label, prose, a blank line.
QuoteLines ==
  { <<">", SP, Label("Warning"), SP, "Never sync caches">>,
    <<">", SP, Label("Warning")>>,
    <<">", SP, Label("Tip"), SP, "Use a dotfiles repository">>,
    <<">", SP, "Quoted text">>,
    <<"Some text">>,
    <<>> }

QuoteTexts ==
  {Join(ls) : ls \in UNION {[1..n -> QuoteLines] : n \in 0..MaxContentLines}}

InitAsides ==
  /\ source = NoFile
  /\ files = [p \in Paths |-> NoFile]
  /\ pc = "unit"
  /\ sectionIndex = 1
  /\ extractedSections = <<>>
  /\ writeIndex = 1
  /\ console = <<>>
  /\ runs = 0
  /\ snapshot = files
  /\ call = NoCall
  /\ \E t \in QuoteTexts :
       unit = [content |-> t, input |-> <<>>, output |-> t, applied |-> 0]

\* convertBlockquotesToAsides is applied to the drawn text.
ApplyConvert ==
  /\ pc = "unit"
  /\ unit.applied = 0
  /\ unit' = [unit EXCEPT
                !.input = unit.output,
                !.output = convertBlockquotesToAsides(unit.output),
                !.applied = 1]
  /\ UNCHANGED <<source, files, pc, sectionIndex, extractedSections, writeIndex,
                 console, runs, snapshot, call>>

NextAsides == ApplyConvert

SpecAsides == InitAsides /\ [][NextAsides]_vars

\* Number of tokens of s that are tok.
CountTokens(s, tok) == Cardinality({i \in 1..Len(s) : s[i] = tok})

\* Number of the lines ls that are blockquote lines with a label of the
\* tag / without a label.
CountLabelled(ls, tag) ==
  Cardinality({n \in 1..Len(ls) : IsLabelledQuote(ls[n]) /\ TagOf(LabelOf(ls[n])) = tag})
CountUnlabelled(ls) ==
  Cardinality({n \in 1..Len(ls) :
                 ls[n] # <<>> /\ ls[n][1] = ">" /\ ~IsLabelledQuote(ls[n])})

\* C24: after convertBlockquotesToAsides every blockquote line has become
\* exactly one callout: as many caution callouts as Warning and Caution
\* lines, as many tip callouts as Tip lines, and as many note callouts as
\* Note lines and lines without a label; no labelled line is turned into
\* a note callout by the generic rule.
C24_LabelledNeverGeneric ==
  unit.applied = 1 =>
    /\ CountTokens(unit.output, AsideOpen("caution")) =
         CountLabelled(SplitLines(unit.input), "caution")
    /\ CountTokens(unit.output, AsideOpen("tip")) =
         CountLabelled(SplitLines(unit.input), "tip")
    /\ CountTokens(unit.output, AsideOpen("note")) =
         CountLabelled(SplitLines(unit.input), "note")
           + CountUnlabelled(SplitLines(unit.input))

\* The sections of the current run for which writeMdxFile has been called
\* and that write to the path.
CallsFor(path) ==
  {k \in 1..Len(extractedSections) :
     k < writeIndex /\ extractedSections[k].targetPath = path}

\* C25: a writeMdxFile call reads its destination with at most one
\* readFileSync and writes it with at most one writeFileSync; in a run
\* there is at most one call for each definition of SECTIONS, and none for
\* a definition whose start heading is no line of the source: its
\* destination is neither read nor written.
C25_ReadOnceWrittenOnce ==
  /\ CountTokens(call.calls, "readFileSync") <= 1
  /\ CountTokens(call.calls, "writeFileSync") <= 1
  /\ pc \in {"write", "done", "crash"} =>
       \A i \in 1..Len(SECTIONS) :
         /\ Cardinality(CallsFor(SECTIONS[i].targetPath)) <= 1
         /\ LinesThatAre(source.data, SECTIONS[i].startHeading) = {} =>
              /\ CallsFor(SECTIONS[i].targetPath) = {}
              /\ \A k \in 1..Len(extractedSections) :
                   extractedSections[k].targetPath # SECTIONS[i].targetPath

\* C25 witness: a run in which a section was not found is over, and its
\* last call read an existing page once and wrote it once.
C25_Witness ==
  /\ pc = "done"
  /\ call.before.exists
  /\ CountTokens(call.calls, "readFileSync") = 1
  /\ CountTokens(call.calls, "writeFileSync") = 1
  /\ call.after # call.before
  /\ Len(extractedSections) < Len(SECTIONS)

\* A record carries a sectionMarker exactly when its strategy is
\* merge-section.
MarkerIffMerge(r) == (r.sectionMarker # NoMarker) <=> (r.strategy = "merge-section")

\* The definition of SECTIONS the extracted record was built from.
CopiedFrom(e, section) ==
  /\ e.name = section.name
  /\ e.targetPath = section.targetPath
  /\ e.strategy = section.strategy
  /\ e.frontmatter = section.frontmatter
  /\ e.sectionMarker = section.sectionMarker

\* C26: every definition of SECTIONS and every record of extractedSections
\* carries a sectionMarker if and only if its strategy is merge-section;
\* every extracted record has the targetPath, strategy, frontmatter and
\* sectionMarker of the definition of its name, and the content
\* extractSection gives for that definition.
C26_MarkerIffMergeSection ==
  /\ \A i \in 1..Len(SECTIONS) : MarkerIffMerge(SECTIONS[i])
  /\ \A k \in 1..Len(extractedSections) :
       /\ MarkerIffMerge(extractedSections[k])
       /\ \E i \in 1..Len(SECTIONS) :
            /\ CopiedFrom(extractedSections[k], SECTIONS[i])
            /\ extractedSections[k].content =
                 extractSection(source.data, SECTIONS[i].startHeading, SECTIONS[i].endHeading)

\* C26 witness: the extraction loop is over and has built a record with a
\* marker and a record without one.
C26_Witness ==
  /\ pc = "write"
  /\ \E k \in 1..Len(extractedSections) :
       /\ extractedSections[k].strategy = "merge-section"
       /\ extractedSections[k].sectionMarker = Heading("Multi-Mac Sync")
  /\ \E k \in 1..Len(extractedSections) :
       /\ extractedSections[k].strategy = "replace"
       /\ extractedSections[k].sectionMarker = NoMarker

\* How many times the current invocation has read the source file: each
\* read is followed by its "Source file" line.
ReadsOfSource ==
  Cardinality({k \in 1..Len(console) : console[k].text = "Source file"})

\* The lines writeMdxFile prints when it has written a page.
WriteLines ==
  {k \in 1..Len(console) :
     console[k].text \in {"Merged section into", "Replaced", "Created"}}

\* The definitions of SECTIONS whose section is found in the source, in
\* table order.
FoundSections == SelectSeq(SECTIONS,
  LAMBDA d : extractSection(source.data, d.startHeading, d.endHeading) # <<>>)

\* C27: transform works in two phases. While the extraction loop runs the
\* pages are as the invocation found them and nothing has been written;
\* once the write loop has started every definition of SECTIONS has been
\* looked at and extractedSections holds, in table order, what
\* extractSection gives on the source text for each definition found,
\* whatever the writes of the run did; the source has been read exactly
\* once.
C27_ExtractThenWrite ==
  /\ pc = "extract" =>
       /\ files = snapshot
       /\ WriteLines = {}
       /\ sectionIndex <= Len(SECTIONS) + 1
       /\ ReadsOfSource = 1
  /\ pc \in {"write", "done", "crash"} =>
       /\ sectionIndex = Len(SECTIONS) + 1
       /\ ReadsOfSource = 1
       /\ Len(extractedSections) = Len(FoundSections)
       /\ \A k \in 1..Len(extractedSections) :
            /\ extractedSections[k].name = FoundSections[k].name
            /\ extractedSections[k].content =
                 extractSection(source.data, FoundSections[k].startHeading,
                                FoundSections[k].endHeading)
  /\ pc = "exit" => ReadsOfSource = 0 /\ files = snapshot

\* C27 witness: the write loop has changed a page and goes on with a
\* section extracted before that write.
C27_Witness ==
  /\ pc = "write"
  /\ writeIndex > 1
  /\ writeIndex <= Len(extractedSections)
  /\ files # snapshot

\* The new section, trimmed as mergeSection inserts it, begins with the
\* marker.
NewStartsWithMarker == startsAt(trim(unit.newContent), 0, unit.sectionMarker)

C29_FixedPointAfterTwoRuns ==
  (call.strategy \in {"replace", "create"} /\ RunOfCall >= 3) =>
    /\ call.before.exists
    /\ call.after = call.before

\* C29 witness: a call of the third run has written its page, and the page
\* is as the second run left it.
C29_Witness ==
  /\ call.strategy \in {"replace", "create"}
  /\ RunOfCall = 3
  /\ pc = "write"
  /\ CountTokens(call.calls, "writeFileSync") = 1
  /\ call.before.exists
  /\ call.after = call.before

\* The latest call is for a merge-section without a marker whose page
\* exists.
UnmarkedMergeOnExisting ==
  /\ call.strategy = "merge-section"
  /\ call.sectionMarker = NoMarker
  /\ call.before.exists

\* The paths writeMdxFile has been called for in the current run, the call
\* an exception ended included.
PathsProcessed ==
  {extractedSections[k].targetPath :
     k \in {j \in 1..Len(extractedSections) :
              j < writeIndex \/ (pc = "crash" /\ j = writeIndex)}}

\* C30: a call for a merge-section without a sectionMarker whose page exists
\* makes no writeFileSync, leaves the page as it was and prints nothing,
\* neither a report nor a warning; a page that is the targetPath of no
\* section processed so far is as the run found it.
C30_UnmarkedMergeWritesNothing ==
  /\ UnmarkedMergeOnExisting =>
       /\ call.after = call.before
       /\ call.printed = <<>>
       /\ CountTokens(call.calls, "writeFileSync") = 0
       /\ CountTokens(call.calls, "readFileSync") = 0
  /\ \A p \in Paths : p \notin PathsProcessed => files[p] = snapshot[p]

\* C30 witness: the run is over and reported as complete, the Dotfiles
\* section had no marker and was extracted, and its existing page is as the
\* run found it while another page has been rewritten.
C30_Witness ==
  /\ pc = "done"
  /\ CompletionReported
  /\ \E k \in 1..Len(extractedSections) :
       /\ extractedSections[k].name = "Dotfiles Integration"
       /\ extractedSections[k].sectionMarker = NoMarker
  /\ snapshot["guides/power-users.mdx"].exists
  /\ files["guides/power-users.mdx"] = snapshot["guides/power-users.mdx"]
  /\ files["reference/troubleshooting.mdx"] # snapshot["reference/troubleshooting.mdx"]
  /\ \A k \in 1..Len(console) : console[k].level = "log"
====
